---- MODULE Spec2Model ----
(***************************************************************************)
(* A model of the DAQ controller of jetson_phase1:                         *)
(*   src/mcc_daq.py  class DAQ (controller of one uldaq device)            *)
(*   src/main.py     main()    (the process driving one DAQ object)        *)
(* The uldaq hardware scan service is the environment: its answers are     *)
(* nondeterministic, and it runs asynchronously to the Python code.        *)
(***************************************************************************)
EXTENDS Integers, Sequences, FiniteSets, TLC

(***************************************************************************)
(* Bounds of the model.                                                    *)
(***************************************************************************)
\* get_daq_device_inventory returns 0..MaxDevices descriptors
MaxDevices == 2
\* float buffers that can exist at once (ids of create_float_buffer results)
MaxBufs == 5
\* the count of release calls the hardware service received saturates here
MaxCount == 2
\* amplitudes 0..MaxAmplitude and offsets -MaxOffset..MaxOffset of waveforms
MaxAmplitude == 2
MaxOffset == 1
\* filter cutoffs -1..MaxCutoff and orders -1..MaxOrder
MaxCutoff == 3
MaxOrder == 2

(***************************************************************************)
(* Program constants.                                                      *)
(***************************************************************************)
\* analog_input_map / analog_output_map "samples_per_channel": 10000 in the
\* source, scaled to one buffer of 4 samples
samples_per_channel == 4
\* analog_input_map / analog_output_map "sample_rate"
sample_rate == 1000

\* buffer lengths generate_waveform is applied to on its own
WaveLengths == {4, 8, 12}
Shapes == {"sine", "triangle", "quadrature"}
\* the sample values the hardware service writes into an input buffer
SampleValues == {0, 1}

BufIds == 1..MaxBufs
None == 0
Dirs == {"in", "out"}

(***************************************************************************)
(* Exceptions, by type and message.                                        *)
(***************************************************************************)
NoError == [type |-> "none", msg |-> ""]
RuntimeError(m) == [type |-> "RuntimeError", msg |-> m]
ValueError(m) == [type |-> "ValueError", msg |-> m]
AttributeError == [type |-> "AttributeError", msg |-> "NoneType has no attribute"]
ULException == [type |-> "ULException", msg |-> "hardware service error"]
KeyboardInterrupt == [type |-> "KeyboardInterrupt", msg |-> ""]
ZeroDivisionError == [type |-> "ZeroDivisionError", msg |-> "float division by zero"]

(***************************************************************************)
(* generate_waveform (src/mcc_daq.py 125-137).  Samples are fixed-point,   *)
(* in units of 1/Fix; the phase of sample k of n is t = 2*pi*k/n.          *)
(***************************************************************************)
Fix == 12 * 1000

\* Fix * sin(d degrees) for the quarter-wave angles the lengths above need
SinQuarter(d) ==
  CASE d = 0 -> 0
    [] d = 30 -> 6000
    [] d = 45 -> 8485
    [] d = 60 -> 10392
    [] d = 90 -> 12000

\* Fix * sin(d degrees), 0 <= d < 360
SinFix(d) ==
  IF d <= 90 THEN SinQuarter(d)
  ELSE IF d <= 180 THEN SinQuarter(180 - d)
  ELSE IF d <= 270 THEN 0 - SinQuarter(d - 180)
  ELSE 0 - SinQuarter(360 - d)

\* amplitude * np.sin(t) + offset at sample k of n
SineSample(amplitude, offset, k, n) ==
  amplitude * SinFix((360 * k) \div n) + offset * Fix

\* np.floor(t / pi + 0.5) at sample k of n: t/pi = 2k/n
FloorHalf(k, n) == (4 * k + n) \div (2 * n)

\* amplitude * 2 * (t / pi - np.floor(t / pi + 0.5)) + offset at sample k of n
TriangleSample(amplitude, offset, k, n) ==
  (amplitude * 2 * (2 * k - n * FloorHalf(k, n)) * Fix) \div n + offset * Fix

\* a generate_waveform that falls back to the sine for any other shape
generate_waveform_default_sine(waveform_type, amplitude, offset, n) ==
  IF waveform_type = "triangle"
  THEN [err |-> NoError,
        wave |-> [k \in 1..n |-> TriangleSample(amplitude, offset, k - 1, n)]]
  ELSE [err |-> NoError,
        wave |-> [k \in 1..n |-> SineSample(amplitude, offset, k - 1, n)]]

\* the result of generate_waveform: the samples, or the error raised
generate_waveform(waveform_type, amplitude, offset, n) ==
  IF waveform_type = "sine"
  THEN [err |-> NoError,
        wave |-> [k \in 1..n |-> SineSample(amplitude, offset, k - 1, n)]]
  ELSE IF waveform_type = "triangle"
  THEN [err |-> NoError,
        wave |-> [k \in 1..n |-> TriangleSample(amplitude, offset, k - 1, n)]]
  ELSE [err |-> ValueError("Unsupported waveform type"), wave |-> <<>>]

(***************************************************************************)
(* State.                                                                  *)
(***************************************************************************)
VARIABLES
  \* the hardware scan service (uldaq)
  inventory,      \* number of descriptors get_daq_device_inventory returns
  caps,           \* what the one device supports and how connect answers
  hw,             \* handle, connection, the two scans, count of release calls
  mem,            \* contents of the float buffers, by buffer id
  \* the DAQ object
  obj,            \* "unborn", "failed" (__init__ raised), "live", "finalizing", "dead"
  self,           \* the fields of the DAQ object
  mpc,            \* position inside a method that is executing, or "ready"
  frame,          \* the locals of the method that is executing
  \* what the last operation did, and counts of close_DAQ
  last,           \* name, exception raised, hardware calls issued, return value
  close_invoked,  \* whether close_DAQ has been called
  close_returned, \* whether a call of close_DAQ has returned normally
  \* main()
  pc,             \* position in main()
  daq,            \* main's local daq: TRUE when bound to the DAQ object
  output_wave,    \* the caller's waveform
  exc,            \* the exception main is handling or propagating
  handled,        \* the exception an except clause of main has handled
  \* generate_waveform applied on its own
  wave_args,
  \* DataProcessor: the last filter design call and its outcome
  filter_call

hwvars == <<inventory, caps, hw, mem>>
objvars == <<obj, self, mpc, frame>>
obsvars == <<last, close_invoked, close_returned>>
mainvars == <<pc, daq, exc, handled>>
vars == <<hwvars, objvars, obsvars, mainvars, output_wave, wave_args, filter_call>>

Caps == [ai : BOOLEAN, ao : BOOLEAN, ai_pacer : BOOLEAN, ao_pacer : BOOLEAN,
         connect : {"ok", "not_connected", "raises"}]

Zeros(n) == [k \in 1..n |-> 0]
Inc(c) == IF c < MaxCount THEN c + 1 ELSE c

\* the fields as DAQ.__init__ sets them before initDAQ
Fields(n_in, n_out) ==
  [daq_device |-> FALSE, ai_device |-> FALSE, ao_device |-> FALSE,
   ai_info |-> FALSE, ao_info |-> FALSE,
   actual_in_rate |-> 0, actual_out_rate |-> 0,
   buffer_in |-> None, buffer_out |-> None, input_average |-> <<0, 1>>,
   analog_input_map |-> [samples_per_channel |-> n_in],
   analog_output_map |-> [samples_per_channel |-> n_out]]

IdleScan == [status |-> "IDLE", buf |-> None]
NoFrame == [in_status |-> "IDLE", out_status |-> "IDLE", input_data |-> None,
            input_average |-> <<0, 1>>]
\* the record of an operation: answer is the status get_scan_status
\* returned, wrote the buffer the operation wrote, read_at_call is the contents of the input
\* buffer when input_data was taken, printed is what the operation printed
NoCall == [name |-> "none", raised |-> NoError, calls |-> <<>>, ret |-> FALSE,
           answer |-> "none", wrote |-> None, closed_before |-> FALSE, read_at_call |-> <<>>,
           printed |-> <<>>]

InitCommon ==
  /\ inventory \in 0..MaxDevices
  /\ caps \in Caps
  /\ hw = [handle |-> "none", connected |-> FALSE, in |-> IdleScan,
           out |-> IdleScan, releases |-> 0]
  /\ mem = [b \in BufIds |-> <<>>]
  /\ obj = "unborn"
  /\ mpc = "ready"
  /\ frame = NoFrame
  /\ last = NoCall
  /\ close_invoked = FALSE
  /\ close_returned = FALSE
  /\ daq = FALSE
  /\ output_wave = <<>>
  /\ exc = NoError
  /\ handled = NoError
  /\ filter_call = [family |-> "none"]

(***************************************************************************)
(* Float buffers.  A buffer lives while the DAQ object references it; the  *)
(* hardware service keeps the address it was given, not a reference.       *)
(***************************************************************************)
\* the buffers the fields f of the object reference
HeldBy(f) == {f.buffer_in, f.buffer_out} \ {None}
\* the buffers the hardware service h is using
UsedBy(h) == {h.in.buf, h.out.buf} \ {None}

\* create_float_buffer: the memory it may return, given the fields f and the
\* hardware service h.  Never a referenced buffer; either memory nobody uses
\* (the lowest such id stands for all of them) or memory released while the
\* hardware service still uses it.
Allocatable(f, h) ==
  LET unused == BufIds \ (HeldBy(f) \cup UsedBy(h))
      lowest == {b \in unused : \A c \in unused : b <= c}
  IN lowest \cup (UsedBy(h) \ HeldBy(f))

\* Buffer ids are names of memory blocks: states are kept under one naming,
\* in the order buffer_in, buffer_out, the input scan's, the output scan's.
Order(f, h) == <<f.buffer_in, f.buffer_out, h.in.buf, h.out.buf>>
Rank(b, f, h) ==
  IF b = None THEN None
  ELSE LET o == Order(f, h)
           first == CHOOSE i \in DOMAIN o : o[i] = b /\ \A j \in 1..(i - 1) : o[j] # b
       IN 1 + Cardinality({o[j] : j \in 1..(first - 1)} \ {None})

\* the fields f, hardware service h and memory m after an operation: memory
\* neither referenced nor used holds nothing observable
Settle(f, h, m) ==
  LET live == HeldBy(f) \cup UsedBy(h)
  IN [self |-> [f EXCEPT !.buffer_in = Rank(@, f, h), !.buffer_out = Rank(@, f, h)],
      hw |-> [h EXCEPT !.in.buf = Rank(@, f, h), !.out.buf = Rank(@, f, h)],
      mem |-> [b \in BufIds |->
                 IF \E c \in live : Rank(c, f, h) = b
                 THEN m[CHOOSE c \in live : Rank(c, f, h) = b]
                 ELSE <<>>]]

(***************************************************************************)
(* DAQ.initDAQ (src/mcc_daq.py 44-83): what it leaves in the object and    *)
(* in the hardware service, for an inventory of `devices` descriptors and  *)
(* a device of capabilities c.                                             *)
(***************************************************************************)
\* an initDAQ that takes devices[0] whenever the inventory is not empty
initDAQ_first_of_many(devices, c) ==
  LET d0 == [err |-> NoError, daq_device |-> FALSE, ai_device |-> FALSE,
             ao_device |-> FALSE, ai_info |-> FALSE, ao_info |-> FALSE,
             handle |-> "none", connected |-> FALSE,
             calls |-> <<"get_daq_device_inventory">>]
      d4 == [d0 EXCEPT !.daq_device = TRUE, !.handle = "open",
                       !.ai_device = TRUE, !.ao_device = TRUE,
                       !.ai_info = TRUE, !.ao_info = TRUE, !.connected = TRUE,
                       !.calls = @ \o <<"DaqDevice", "get_ai_device", "get_ao_device",
                                        "ai.get_info", "ao.get_info",
                                        "get_descriptor", "connect", "is_connected">>]
  IN IF devices = 0
     THEN [d0 EXCEPT !.err = RuntimeError("Error: No DAQ devices found")]
     ELSE d4

\* an initDAQ that connects without asking for the pacers
initDAQ_unpaced(devices, c) ==
  LET d0 == [err |-> NoError, daq_device |-> FALSE, ai_device |-> FALSE,
             ao_device |-> FALSE, ai_info |-> FALSE, ao_info |-> FALSE,
             handle |-> "none", connected |-> FALSE,
             calls |-> <<"get_daq_device_inventory">>]
      d1 == [d0 EXCEPT !.daq_device = TRUE, !.handle = "open",
                       !.ai_device = c.ai, !.ao_device = c.ao,
                       !.calls = @ \o <<"DaqDevice", "get_ai_device", "get_ao_device">>]
      d3 == [d1 EXCEPT !.ai_info = TRUE, !.ao_info = TRUE,
                       !.calls = @ \o <<"ai.get_info", "ao.get_info",
                                        "get_descriptor", "connect">>]
      d4 == [d3 EXCEPT !.connected = (c.connect = "ok"),
                       !.calls = @ \o <<"is_connected">>]
  IN IF devices = 0
     THEN [d0 EXCEPT !.err = RuntimeError("Error: No DAQ devices found")]
     ELSE IF devices > 1
     THEN [d0 EXCEPT !.err = RuntimeError("Error: More than one DAQ device found.")]
     ELSE IF ~d1.ai_device
     THEN [d1 EXCEPT !.err = RuntimeError("Error: The DAQ device does not support analog input")]
     ELSE IF ~d1.ao_device
     THEN [d1 EXCEPT !.err = RuntimeError("Error: The DAQ device does not support analog output")]
     ELSE IF c.connect = "raises"
     THEN [d3 EXCEPT !.err = ULException]
     ELSE IF ~d4.connected
     THEN [d4 EXCEPT !.err = RuntimeError("Error: The DAQ device is not connected")]
     ELSE d4

initDAQ(devices, c) ==
  LET d0 == [err |-> NoError, daq_device |-> FALSE, ai_device |-> FALSE,
             ao_device |-> FALSE, ai_info |-> FALSE, ao_info |-> FALSE,
             handle |-> "none", connected |-> FALSE,
             calls |-> <<"get_daq_device_inventory">>]
      d1 == [d0 EXCEPT !.daq_device = TRUE, !.handle = "open",
                       !.ai_device = c.ai, !.ao_device = c.ao,
                       !.calls = @ \o <<"DaqDevice", "get_ai_device", "get_ao_device">>]
      d2 == [d1 EXCEPT !.ai_info = TRUE, !.ao_info = TRUE,
                       !.calls = @ \o <<"ai.get_info", "ao.get_info">>]
      d3 == [d2 EXCEPT !.calls = @ \o <<"get_descriptor", "connect">>]
      d4 == [d3 EXCEPT !.connected = (c.connect = "ok"),
                       !.calls = @ \o <<"is_connected">>]
  IN IF devices = 0
     THEN [d0 EXCEPT !.err = RuntimeError("Error: No DAQ devices found")]
     ELSE IF devices > 1
     THEN [d0 EXCEPT !.err = RuntimeError("Error: More than one DAQ device found.")]
     ELSE IF ~d1.ai_device
     THEN [d1 EXCEPT !.err = RuntimeError("Error: The DAQ device does not support analog input")]
     ELSE IF ~d1.ao_device
     THEN [d1 EXCEPT !.err = RuntimeError("Error: The DAQ device does not support analog output")]
     ELSE IF ~c.ai_pacer
     THEN [d2 EXCEPT !.err = RuntimeError("Error: The specified DAQ device does not support hardware paced analog input")]
     ELSE IF ~c.ao_pacer
     THEN [d2 EXCEPT !.err = RuntimeError("Error: The DAQ device does not support paced analog output")]
     ELSE IF c.connect = "raises"
     THEN [d3 EXCEPT !.err = ULException]
     ELSE IF ~d4.connected
     THEN [d4 EXCEPT !.err = RuntimeError("Error: The DAQ device is not connected")]
     ELSE d4

\* DAQ.__init__ (src/mcc_daq.py 12-42): the fields, then initDAQ
DAQ_init ==
  /\ obj = "unborn"
  /\ LET r == initDAQ(inventory, caps)
         f == Fields(self.analog_input_map.samples_per_channel,
                     self.analog_output_map.samples_per_channel)
     IN /\ self' = [f EXCEPT !.daq_device = r.daq_device, !.ai_device = r.ai_device,
                             !.ao_device = r.ao_device, !.ai_info = r.ai_info,
                             !.ao_info = r.ao_info]
        /\ hw' = [hw EXCEPT !.handle = r.handle, !.connected = r.connected]
        /\ obj' = IF r.err = NoError THEN "live" ELSE "failed"
        /\ last' = [NoCall EXCEPT !.name = "DAQ", !.raised = r.err, !.calls = r.calls]
  /\ UNCHANGED <<inventory, caps, mem, mpc, frame, close_invoked, close_returned>>

(***************************************************************************)
(* The scan operations of DAQ.                                             *)
(***************************************************************************)
\* whether the hardware service takes a scan request for direction d: the
\* device is open and connected and no scan of that direction is running
ScanAccepted(d) == hw.handle = "open" /\ hw.connected /\ hw[d].status # "RUNNING"

\* the rate the hardware service negotiates for the requested sample_rate
ActualRate == sample_rate - 1

Sum(s) == LET F[i \in 0..Len(s)] == IF i = 0 THEN 0 ELSE F[i - 1] + s[i] IN F[Len(s)]
\* np.mean, as the pair <<sum, count>>
Mean(s) == <<Sum(s), Len(s)>>

\* DAQ.start_input_thread (src/mcc_daq.py 85-101)
start_input_thread ==
  /\ obj = "live"
  /\ mpc = "ready"
  /\ \E b \in Allocatable(self, hw), fails \in BOOLEAN :
       LET n == self.analog_input_map.samples_per_channel
           ok == ScanAccepted("in") /\ ~fails
           f2 == [self EXCEPT !.buffer_in = b,
                              !.actual_in_rate = IF ok THEN ActualRate ELSE @]
           h2 == IF ok THEN [hw EXCEPT !.in = [status |-> "RUNNING", buf |-> b]]
                 ELSE hw
           s2 == Settle(f2, h2, [mem EXCEPT ![b] = Zeros(n)])
       IN /\ self' = s2.self
          /\ hw' = s2.hw
          /\ mem' = s2.mem
          /\ last' = [NoCall EXCEPT !.name = "start_input_thread",
                                    !.raised = IF ok THEN NoError ELSE ULException,
                                    !.calls = <<"create_float_buffer", "a_in_scan">>]
  /\ UNCHANGED <<inventory, caps, obj, mpc, frame, close_invoked, close_returned>>

\* DAQ.start_output_thread (src/mcc_daq.py 103-123), given the waveform
start_output_thread(waveform) ==
  /\ obj = "live"
  /\ mpc = "ready"
  /\ \E b \in Allocatable(self, hw), fails \in BOOLEAN :
       LET n == self.analog_output_map.samples_per_channel
           fits == Len(waveform) = n
           ok == fits /\ ScanAccepted("out") /\ ~fails
           f2 == [self EXCEPT !.buffer_out = b,
                              !.actual_out_rate = IF ok THEN ActualRate ELSE @]
           h2 == IF ok THEN [hw EXCEPT !.out = [status |-> "RUNNING", buf |-> b]]
                 ELSE hw
           s2 == Settle(f2, h2, [mem EXCEPT ![b] = IF fits THEN waveform ELSE Zeros(n)])
       IN /\ self' = s2.self
          /\ hw' = s2.hw
          /\ mem' = s2.mem
          /\ last' = [NoCall EXCEPT
                        !.name = "start_output_thread",
                        !.raised = IF ok THEN NoError
                                   ELSE IF fits THEN ULException
                                   ELSE ValueError("could not broadcast input array"),
                        !.wrote = IF fits THEN s2.self.buffer_out ELSE None,
                        !.calls = IF fits THEN <<"create_float_buffer", "a_out_scan">>
                                  ELSE <<"create_float_buffer">>]
  /\ UNCHANGED <<inventory, caps, obj, mpc, frame, close_invoked, close_returned>>

\* DAQ.check_input_thread / DAQ.check_output_thread (src/mcc_daq.py 160-168)
check_thread(d, name, query) ==
  /\ obj = "live"
  /\ mpc = "ready"
  /\ \E fails \in BOOLEAN :
       last' = [NoCall EXCEPT !.name = name,
                              !.raised = IF fails THEN ULException ELSE NoError,
                              !.calls = <<query>>,
                              !.answer = IF fails THEN "none" ELSE hw[d].status,
                              !.ret = ~fails /\ hw[d].status = "RUNNING"]
  /\ UNCHANGED <<hwvars, objvars, close_invoked, close_returned>>

check_input_thread == check_thread("in", "check_input_thread", "ai.get_scan_status")
check_output_thread == check_thread("out", "check_output_thread", "ao.get_scan_status")

\* DAQ.calculate_input_average (src/mcc_daq.py 139-146)
calculate_input_average ==
  /\ obj = "live"
  /\ mpc = "ready"
  /\ self' = IF self.buffer_in # None
             THEN [self EXCEPT !.input_average = Mean(mem[self.buffer_in])]
             ELSE self
  /\ last' = [NoCall EXCEPT !.name = "calculate_input_average"]
  /\ UNCHANGED <<hwvars, obj, mpc, frame, close_invoked, close_returned>>

\* DAQ.print_input_data_and_average, lines 152-156: input_data is a view of
\* buffer_in (np.ctypeslib.as_array shares the buffer's memory), then its mean
print_input_data_and_average ==
  /\ obj = "live"
  /\ mpc = "ready"
  /\ IF self.buffer_in # None
     THEN /\ frame' = [frame EXCEPT !.input_data = self.buffer_in,
                                    !.input_average = Mean(mem[self.buffer_in])]
          /\ last' = [NoCall EXCEPT !.name = "print_input_data_and_average",
                                    !.read_at_call = mem[self.buffer_in]]
          /\ mpc' = "print"
     ELSE /\ last' = [NoCall EXCEPT !.name = "print_input_data_and_average"]
          /\ UNCHANGED <<frame, mpc>>
  /\ UNCHANGED <<hwvars, obj, self, close_invoked, close_returned>>

\* DAQ.print_input_data_and_average, lines 157-158: the two print calls
print_input_data_and_average_print ==
  /\ mpc = "print"
  /\ last' = [last EXCEPT !.printed = <<mem[frame.input_data], frame.input_average>>]
  /\ mpc' = "ready"
  /\ frame' = NoFrame
  /\ UNCHANGED <<hwvars, obj, self, close_invoked, close_returned>>

(***************************************************************************)
(* DAQ.close_DAQ (src/mcc_daq.py 170-188) and DAQ.__del__ (190-191).       *)
(* close_DAQ runs in two steps, the status queries and the teardown calls: *)
(* the hardware service may act between them.  Any call to the hardware    *)
(* service may raise ULException.                                          *)
(***************************************************************************)
\* lines 175-178 when query number f raises (f = 0: none does): the
\* exception, the calls issued and whether close_DAQ goes on to line 179
CloseQuery(f) ==
  IF ~self.daq_device
  THEN [err |-> NoError, calls |-> <<>>, goes_on |-> FALSE]
  ELSE IF ~self.ai_device
  THEN [err |-> AttributeError, calls |-> <<>>, goes_on |-> FALSE]
  ELSE IF f = 1
  THEN [err |-> ULException, calls |-> <<"ai.get_scan_status">>, goes_on |-> FALSE]
  ELSE IF ~self.ao_device
  THEN [err |-> AttributeError, calls |-> <<"ai.get_scan_status">>, goes_on |-> FALSE]
  ELSE IF f = 2
  THEN [err |-> ULException,
        calls |-> <<"ai.get_scan_status", "ao.get_scan_status">>, goes_on |-> FALSE]
  ELSE [err |-> NoError,
        calls |-> <<"ai.get_scan_status", "ao.get_scan_status">>, goes_on |-> TRUE]

\* the object after the operation: an object __del__ has finished with is
\* gone, and its fields and buffers with it
Finalized(o, f) ==
  IF o = "dead"
  THEN Fields(f.analog_input_map.samples_per_channel,
              f.analog_output_map.samples_per_channel)
  ELSE f

\* close_DAQ, lines 175-178, called by the owner of the object (from_del
\* FALSE) or by __del__ once the object is unreachable (from_del TRUE)
close_DAQ_begin(from_del) ==
  /\ mpc = "ready"
  /\ obj \in (IF from_del THEN {"live", "failed"} ELSE {"live"})
  /\ close_invoked' = TRUE
  /\ \E f \in 0..2 :
       LET q == CloseQuery(f)
           o2 == IF ~from_del THEN obj
                 ELSE IF q.goes_on THEN "finalizing" ELSE "dead"
           s2 == Settle(Finalized(o2, self), hw, mem)
       IN /\ last' = [NoCall EXCEPT !.name = "close_DAQ", !.raised = q.err,
                                    !.calls = q.calls,
                                    !.closed_before = close_returned]
          /\ mpc' = IF q.goes_on THEN "close_stop" ELSE "ready"
          /\ frame' = IF q.goes_on
                      THEN [frame EXCEPT !.in_status = hw.in.status,
                                         !.out_status = hw.out.status]
                      ELSE frame
          /\ close_returned' = (close_returned \/ (~q.goes_on /\ q.err = NoError))
          /\ obj' = o2
          /\ self' = s2.self
          /\ hw' = s2.hw
          /\ mem' = s2.mem
  /\ UNCHANGED <<inventory, caps>>

\* a teardown that never stops the output scan
ClosePlan_without_output_stop ==
  (IF frame.in_status = "RUNNING" THEN <<"ai.scan_stop">> ELSE <<>>)
  \o <<"is_connected">>
  \o (IF hw.connected THEN <<"disconnect">> ELSE <<>>)
  \o <<"release">>

\* the teardown calls of lines 179-188, in order
ClosePlan ==
  (IF frame.in_status = "RUNNING" THEN <<"ai.scan_stop">> ELSE <<>>)
  \o (IF frame.out_status = "RUNNING" THEN <<"ao.scan_stop">> ELSE <<>>)
  \o <<"is_connected">>
  \o (IF hw.connected THEN <<"disconnect">> ELSE <<>>)
  \o <<"release">>

\* close_DAQ, lines 179-188: call number f of the plan raises (f = 0: none)
close_DAQ_stop ==
  /\ mpc = "close_stop"
  /\ \E f \in 0..Len(ClosePlan) :
       LET issued == IF f = 0 THEN ClosePlan ELSE SubSeq(ClosePlan, 1, f)
           done == {ClosePlan[i] : i \in 1..(IF f = 0 THEN Len(ClosePlan) ELSE f - 1)}
           called == {issued[i] : i \in 1..Len(issued)}
           h2 == [hw EXCEPT
                    !.in = IF "ai.scan_stop" \in done THEN IdleScan ELSE @,
                    !.out = IF "ao.scan_stop" \in done THEN IdleScan ELSE @,
                    !.connected = IF "disconnect" \in done THEN FALSE ELSE @,
                    !.handle = IF "release" \in done THEN "released" ELSE @,
                    !.releases = IF "release" \in called THEN Inc(@) ELSE @]
           o2 == IF obj = "finalizing" THEN "dead" ELSE obj
           s2 == Settle(Finalized(o2, self), h2, mem)
       IN /\ hw' = s2.hw
          /\ last' = [last EXCEPT !.calls = @ \o issued,
                                  !.raised = IF f = 0 THEN NoError ELSE ULException]
          /\ close_returned' = (close_returned \/ f = 0)
          /\ obj' = o2
          /\ self' = s2.self
          /\ mem' = s2.mem
  /\ mpc' = "ready"
  /\ frame' = NoFrame
  /\ UNCHANGED <<inventory, caps, close_invoked>>

\* DAQ.close_DAQ called by the owner of the object
close_DAQ == close_DAQ_begin(FALSE)

\* a __del__ that does not call close_DAQ
DAQ_del_without_close ==
  /\ mpc = "ready"
  /\ obj \in {"live", "failed"}
  /\ obj' = "dead"
  /\ LET s2 == Settle(Finalized("dead", self), hw, mem)
     IN self' = s2.self /\ hw' = s2.hw /\ mem' = s2.mem
  /\ last' = [NoCall EXCEPT !.name = "__del__"]
  /\ UNCHANGED <<inventory, caps, mpc, frame, close_invoked, close_returned>>

\* DAQ.__del__: runs close_DAQ when the last reference to the object is gone;
\* an exception it raises is printed and dropped
DAQ_del == close_DAQ_begin(TRUE)

(***************************************************************************)
(* The hardware scan service acting on its own.                            *)
(***************************************************************************)
\* a running input scan writes a sample into the buffer it was given
HwAcquire ==
  /\ hw.in.status = "RUNNING"
  /\ \E i \in 1..Len(mem[hw.in.buf]), v \in SampleValues :
       mem' = [mem EXCEPT ![hw.in.buf][i] = v]
  /\ UNCHANGED <<inventory, caps, hw, objvars, obsvars>>

\* a running scan hits an error condition (input overrun, output underrun)
HwFault(d) ==
  /\ hw[d].status = "RUNNING"
  /\ LET s2 == Settle(self, [hw EXCEPT ![d] = [status |-> "ERROR", buf |-> None]], mem)
     IN /\ hw' = s2.hw
        /\ self' = s2.self
        /\ mem' = s2.mem
  /\ UNCHANGED <<inventory, caps, obj, mpc, frame, obsvars>>

(***************************************************************************)
(* A caller of generate_waveform: the result replaces the caller's         *)
(* waveform unless ValueError is raised.                                   *)
(***************************************************************************)
WaveArgs == [shape : Shapes, amplitude : 0..MaxAmplitude,
             offset : (0 - MaxOffset)..MaxOffset]
\* the arguments main() passes (src/main.py 15)
MainWaveArgs == [shape |-> "triangle", amplitude |-> 1, offset |-> 0]

Generate(args) ==
  /\ obj = "live"
  /\ mpc = "ready"
  /\ LET r == generate_waveform(args.shape, args.amplitude, args.offset,
                                self.analog_output_map.samples_per_channel)
     IN /\ output_wave' = IF r.err = NoError THEN r.wave ELSE output_wave
        /\ last' = [NoCall EXCEPT !.name = "generate_waveform", !.raised = r.err]
  /\ wave_args' = args
  /\ UNCHANGED filter_call
  /\ UNCHANGED <<hwvars, objvars, close_invoked, close_returned>>

(***************************************************************************)
(* Spec: one DAQ object used by a caller that may call its operations in   *)
(* any order, with the hardware service running alongside.                 *)
(***************************************************************************)
Init ==
  /\ InitCommon
  /\ self = Fields(samples_per_channel, samples_per_channel)
  /\ pc = "api"
  /\ wave_args = MainWaveArgs

ApiConstruct ==
  /\ DAQ_init
  /\ daq' = (obj' = "live")
  /\ UNCHANGED <<pc, exc, handled, output_wave, wave_args, filter_call>>

ApiGenerate ==
  /\ \E shape \in {"triangle", "quadrature"} :
       Generate([MainWaveArgs EXCEPT !.shape = shape])
  /\ UNCHANGED <<pc, daq, exc, handled>>

ApiStartOutput ==
  /\ output_wave # <<>>
  /\ start_output_thread(output_wave)
  /\ UNCHANGED <<mainvars, output_wave, wave_args, filter_call>>

ApiStartInput == start_input_thread /\ UNCHANGED <<mainvars, output_wave, wave_args, filter_call>>
ApiCheckInput == check_input_thread /\ UNCHANGED <<mainvars, output_wave, wave_args, filter_call>>
ApiCheckOutput == check_output_thread /\ UNCHANGED <<mainvars, output_wave, wave_args, filter_call>>
ApiAverage == calculate_input_average /\ UNCHANGED <<mainvars, output_wave, wave_args, filter_call>>
ApiPrint == print_input_data_and_average /\ UNCHANGED <<mainvars, output_wave, wave_args, filter_call>>
ApiPrintStep ==
  print_input_data_and_average_print /\ UNCHANGED <<mainvars, output_wave, wave_args, filter_call>>
ApiClose == close_DAQ /\ UNCHANGED <<mainvars, output_wave, wave_args, filter_call>>
ApiCloseStep == close_DAQ_stop /\ UNCHANGED <<mainvars, output_wave, wave_args, filter_call>>

\* the last reference to the object goes away: after __init__ raised, or
\* when the caller drops it
ApiDrop ==
  /\ DAQ_del
  /\ daq' = FALSE
  /\ UNCHANGED <<pc, exc, handled, output_wave, wave_args, filter_call>>

HwFaults ==
  /\ \E d \in Dirs : HwFault(d)
  /\ UNCHANGED <<mainvars, output_wave, wave_args, filter_call>>

HwWrites == HwAcquire /\ UNCHANGED <<mainvars, output_wave, wave_args, filter_call>>

Next ==
  \/ ApiConstruct
  \/ ApiGenerate
  \/ ApiStartOutput
  \/ ApiStartInput
  \/ ApiCheckInput
  \/ ApiCheckOutput
  \/ ApiClose
  \/ ApiCloseStep
  \/ ApiDrop
  \/ HwFaults

Spec == Init /\ [][Next]_vars

(***************************************************************************)
(* SpecData: the input data path of one DAQ object: the input scan, the    *)
(* hardware service writing samples, and the operations that read them.    *)
(***************************************************************************)
NextData ==
  \/ ApiConstruct
  \/ ApiStartInput
  \/ ApiAverage
  \/ ApiPrint
  \/ ApiPrintStep
  \/ HwWrites

SpecData == Init /\ [][NextData]_vars

(***************************************************************************)
(* SpecMain: main() (src/main.py 8-46) driving the DAQ object.             *)
(***************************************************************************)
InitMain ==
  /\ InitCommon
  /\ self = Fields(samples_per_channel, samples_per_channel)
  /\ pc = "construct"
  /\ wave_args = MainWaveArgs

\* the statements of the try block, lines 10-30
TryBody == {"construct", "generate", "start_output", "start_input",
            "check_output", "check_input", "print", "sleep"}

\* after a call in the try block: on to `ok`, or to the except clauses
Goes(ok) ==
  /\ pc' = IF last'.raised = NoError THEN ok ELSE "except"
  /\ exc' = last'.raised
  /\ UNCHANGED handled

\* line 12: daq = DAQ()
MainConstruct ==
  /\ pc = "construct"
  /\ DAQ_init
  /\ Goes("generate")
  /\ daq' = (last'.raised = NoError)
  /\ UNCHANGED <<output_wave, wave_args, filter_call>>

\* line 15
MainGenerate ==
  /\ pc = "generate"
  /\ Generate(MainWaveArgs)
  /\ Goes("start_output")
  /\ UNCHANGED daq

\* line 18
MainStartOutput ==
  /\ pc = "start_output"
  /\ start_output_thread(output_wave)
  /\ Goes("start_input")
  /\ UNCHANGED <<daq, output_wave, wave_args, filter_call>>

\* line 21
MainStartInput ==
  /\ pc = "start_input"
  /\ start_input_thread
  /\ Goes("check_output")
  /\ UNCHANGED <<daq, output_wave, wave_args, filter_call>>

\* line 25, left operand of `and`
MainCheckOutput ==
  /\ pc = "check_output"
  /\ check_output_thread
  /\ Goes(IF last'.ret THEN "check_input" ELSE "sleep")
  /\ UNCHANGED <<daq, output_wave, wave_args, filter_call>>

\* line 25, right operand of `and`
MainCheckInput ==
  /\ pc = "check_input"
  /\ check_input_thread
  /\ Goes(IF last'.ret THEN "print" ELSE "sleep")
  /\ UNCHANGED <<daq, output_wave, wave_args, filter_call>>

\* lines 26-27
MainPrint ==
  /\ pc = "print"
  /\ print_input_data_and_average
  /\ pc' = IF mpc' = "ready" THEN "check_output" ELSE "print"
  /\ UNCHANGED <<daq, exc, handled, output_wave, wave_args, filter_call>>

MainPrintStep ==
  /\ pc = "print"
  /\ print_input_data_and_average_print
  /\ pc' = "check_output"
  /\ UNCHANGED <<daq, exc, handled, output_wave, wave_args, filter_call>>

\* line 30: time.sleep(1)
MainSleep ==
  /\ pc = "sleep"
  /\ pc' = "check_output"
  /\ UNCHANGED <<hwvars, objvars, obsvars, daq, exc, handled, output_wave, wave_args, filter_call>>

\* KeyboardInterrupt in the try block: no except clause takes it, the
\* finally clause runs and the exception propagates
MainInterrupt ==
  /\ pc \in TryBody
  /\ exc' = KeyboardInterrupt
  /\ UNCHANGED handled
  /\ pc' = "finally"
  /\ mpc' = "ready"
  /\ frame' = NoFrame
  /\ UNCHANGED <<hwvars, obj, self, obsvars, daq, output_wave, wave_args, filter_call>>

\* lines 32-37: the except clauses print the exception and drop it; with it
\* goes the last reference to an object whose __init__ raised
MainExcept ==
  /\ pc = "except"
  /\ handled' = exc
  /\ exc' = NoError
  /\ IF obj = "failed"
     THEN /\ DAQ_del
          /\ pc' = IF mpc' = "ready" THEN "finally" ELSE "except_del"
     ELSE /\ pc' = "finally"
          /\ UNCHANGED <<hwvars, objvars, obsvars>>
  /\ UNCHANGED <<daq, output_wave, wave_args, filter_call>>

MainExceptDel ==
  /\ pc = "except_del"
  /\ close_DAQ_stop
  /\ pc' = "finally"
  /\ UNCHANGED <<daq, exc, handled, output_wave, wave_args, filter_call>>

\* lines 38-46: the finally clause; an Exception of close_DAQ is printed
MainFinally ==
  /\ pc = "finally"
  /\ IF daq
     THEN /\ close_DAQ
          /\ pc' = IF mpc' = "ready" THEN "leave" ELSE "finally_stop"
     ELSE /\ pc' = "leave"
          /\ UNCHANGED <<hwvars, objvars, obsvars>>
  /\ UNCHANGED <<daq, exc, handled, output_wave, wave_args, filter_call>>

MainFinallyStop ==
  /\ pc = "finally_stop"
  /\ close_DAQ_stop
  /\ pc' = "leave"
  /\ UNCHANGED <<daq, exc, handled, output_wave, wave_args, filter_call>>

\* main() returns or propagates: its frame goes, and with it the reference
\* in daq
MainLeave ==
  /\ pc = "leave"
  /\ daq' = FALSE
  /\ IF obj = "live"
     THEN /\ DAQ_del
          /\ pc' = IF mpc' = "ready" THEN "exited" ELSE "leave_del"
     ELSE /\ pc' = "exited"
          /\ UNCHANGED <<hwvars, objvars, obsvars>>
  /\ UNCHANGED <<exc, handled, output_wave, wave_args, filter_call>>

MainLeaveDel ==
  /\ pc = "leave_del"
  /\ close_DAQ_stop
  /\ pc' = "exited"
  /\ UNCHANGED <<daq, exc, handled, output_wave, wave_args, filter_call>>

\* the exit code of the process once main() is left (src/main.py 48-49):
\* main() returning gives 0, an exception propagating out of it gives 1
exit_code == IF exc = NoError THEN 0 ELSE 1

NextMain ==
  \/ MainConstruct
  \/ MainGenerate
  \/ MainStartOutput
  \/ MainStartInput
  \/ MainCheckOutput
  \/ MainCheckInput
  \/ MainPrint
  \/ MainPrintStep
  \/ MainSleep
  \/ MainInterrupt
  \/ MainExcept
  \/ MainExceptDel
  \/ MainFinally
  \/ MainFinallyStop
  \/ MainLeave
  \/ MainLeaveDel
  \/ HwFaults
  \/ HwWrites

SpecMain == InitMain /\ [][NextMain]_vars

(***************************************************************************)
(* SpecWave: generate_waveform applied once to each shape, amplitude,      *)
(* offset and buffer length.                                               *)
(***************************************************************************)
GoodCaps == [ai |-> TRUE, ao |-> TRUE, ai_pacer |-> TRUE, ao_pacer |-> TRUE,
             connect |-> "ok"]

InitWave ==
  /\ InitCommon
  /\ inventory = 1
  /\ caps = GoodCaps
  /\ \E n \in WaveLengths : self = Fields(samples_per_channel, n)
  /\ pc = "api"
  /\ wave_args \in WaveArgs

WaveGenerate ==
  /\ last.name # "generate_waveform"
  /\ Generate(wave_args)
  /\ UNCHANGED <<pc, daq, exc, handled>>

NextWave ==
  \/ ApiConstruct
  \/ WaveGenerate

SpecWave == InitWave /\ [][NextWave]_vars

(***************************************************************************)
(* DataProcessor filter design (src/processor.py 44-80).  Frequencies are  *)
(* integers; a normalized cutoff cutoff / (0.5 * fs) is kept as the        *)
(* fraction 2 * cutoff over fs.  scipy.signal.butter is the environment:   *)
(* it answers with coefficient vectors, kept by their lengths, or raises   *)
(* ValueError.                                                             *)
(***************************************************************************)
\* the sampling frequencies and the parameters the design methods are given
FsValues == {-4, 0, 4}
Cutoffs == (0 - 1)..MaxCutoff
Orders == (0 - 1)..MaxOrder

Sign(x) == IF x > 0 THEN 1 ELSE IF x < 0 THEN 0 - 1 ELSE 0
\* comparisons of fractions with non-zero denominators
Less(r1, r2) ==
  r1.num * r2.den * Sign(r1.den) * Sign(r2.den)
    < r2.num * r1.den * Sign(r1.den) * Sign(r2.den)
Frac(n) == [num |-> n, den |-> 1]

\* normal_cutoff = cutoff / nyquist with nyquist = 0.5 * fs, fs # 0
Normalize(cutoff, fs) == [num |-> 2 * cutoff, den |-> fs]

NoCoefficients == [err |-> NoError, b |-> 0, a |-> 0]

\* scipy.signal.butter(N, Wn, btype, analog=False): the order must be a
\* nonnegative integer and every critical frequency must lie in (0, 1);
\* whether band edges out of order are refused depends on the version
\* (ordered_only).  The result has N + 1 coefficients per vector, 2N + 1
\* for a band
butter(N, Wn, btype, ordered_only) ==
  IF N < 0
  THEN [NoCoefficients EXCEPT !.err = ValueError("Filter order must be a nonnegative integer")]
  ELSE IF \E i \in DOMAIN Wn : ~Less(Frac(0), Wn[i]) \/ ~Less(Wn[i], Frac(1))
  THEN [NoCoefficients EXCEPT
          !.err = ValueError("Digital filter critical frequencies must be 0 < Wn < 1")]
  ELSE IF btype = "band" /\ ordered_only /\ ~Less(Wn[1], Wn[2])
  THEN [NoCoefficients EXCEPT !.err = ValueError("Wn[0] must be less than Wn[1]")]
  ELSE IF btype = "band"
  THEN [err |-> NoError, b |-> 2 * N + 1, a |-> 2 * N + 1]
  ELSE [err |-> NoError, b |-> N + 1, a |-> N + 1]

\* DataProcessor.butter_lowpass (src/processor.py 44-54)
butter_lowpass(cutoff, fs, order, ordered_only) ==
  IF fs = 0 THEN [NoCoefficients EXCEPT !.err = ZeroDivisionError]
  ELSE butter(order, <<Normalize(cutoff, fs)>>, "low", ordered_only)

\* DataProcessor.butter_highpass (src/processor.py 56-66)
butter_highpass(cutoff, fs, order, ordered_only) ==
  IF fs = 0 THEN [NoCoefficients EXCEPT !.err = ZeroDivisionError]
  ELSE butter(order, <<Normalize(cutoff, fs)>>, "high", ordered_only)

\* DataProcessor.butter_bandpass (src/processor.py 68-80)
butter_bandpass(lowcut, highcut, fs, order, ordered_only) ==
  IF fs = 0 THEN [NoCoefficients EXCEPT !.err = ZeroDivisionError]
  ELSE butter(order, <<Normalize(lowcut, fs), Normalize(highcut, fs)>>, "band",
              ordered_only)

FilterCall(family, lowcut, highcut, fs, order, r) ==
  [family |-> family, lowcut |-> lowcut, highcut |-> highcut, fs |-> fs,
   order |-> order, err |-> r.err, b |-> r.b, a |-> r.a]

\* a caller designs a filter; for one cutoff, lowcut and highcut are both it
DesignLowpass ==
  /\ \E cutoff \in Cutoffs, fs \in FsValues, order \in Orders, ordered_only \in BOOLEAN :
       filter_call' = FilterCall("low", cutoff, cutoff, fs, order,
                                 butter_lowpass(cutoff, fs, order, ordered_only))
  /\ UNCHANGED <<hwvars, objvars, obsvars, mainvars, output_wave, wave_args>>

DesignHighpass ==
  /\ \E cutoff \in Cutoffs, fs \in FsValues, order \in Orders, ordered_only \in BOOLEAN :
       filter_call' = FilterCall("high", cutoff, cutoff, fs, order,
                                 butter_highpass(cutoff, fs, order, ordered_only))
  /\ UNCHANGED <<hwvars, objvars, obsvars, mainvars, output_wave, wave_args>>

DesignBandpass ==
  /\ \E lowcut \in Cutoffs, highcut \in Cutoffs, fs \in FsValues, order \in Orders,
        ordered_only \in BOOLEAN :
       filter_call' = FilterCall("band", lowcut, highcut, fs, order,
                                 butter_bandpass(lowcut, highcut, fs, order, ordered_only))
  /\ UNCHANGED <<hwvars, objvars, obsvars, mainvars, output_wave, wave_args>>

InitFilter ==
  /\ InitCommon
  /\ inventory = 1
  /\ caps = GoodCaps
  /\ self = Fields(samples_per_channel, samples_per_channel)
  /\ pc = "api"
  /\ wave_args = MainWaveArgs

NextFilter ==
  \/ DesignLowpass
  \/ DesignHighpass
  \/ DesignBandpass

SpecFilter == InitFilter /\ [][NextFilter]_vars

(***************************************************************************)
(* SpecConfig: the scan operations of a DAQ object whose configuration     *)
(* maps hold a samples_per_channel of 0 or of the source's value.  The     *)
(* maps are public fields of the object (src/mcc_daq.py 24-41).            *)
(***************************************************************************)
ScanCapacities == {0, samples_per_channel}

InitConfig ==
  /\ InitCommon
  /\ \E n_in \in ScanCapacities, n_out \in ScanCapacities : self = Fields(n_in, n_out)
  /\ pc = "api"
  /\ wave_args = MainWaveArgs

\* start_output_thread with the waveform generate_waveform gives for the
\* output map, as main() passes it (src/main.py 15-18)
ConfigStartOutput ==
  /\ start_output_thread(
        generate_waveform(MainWaveArgs.shape, MainWaveArgs.amplitude, MainWaveArgs.offset,
                          self.analog_output_map.samples_per_channel).wave)
  /\ UNCHANGED <<mainvars, output_wave, wave_args, filter_call>>

NextConfig ==
  \/ ApiConstruct
  \/ ApiStartInput
  \/ ConfigStartOutput
  \/ HwFaults

SpecConfig == InitConfig /\ [][NextConfig]_vars

(***************************************************************************)
(* Properties.                                                             *)
(***************************************************************************)
\* the last operation was a call of close_DAQ that has ended
CloseEnded == last.name = "close_DAQ" /\ mpc = "ready"
Calls == {last.calls[i] : i \in DOMAIN last.calls}

\* C1: on every exit path of main() that created a controller (initDAQ
\* raising, a later call raising, an interrupt of the loop), close_DAQ has
\* been invoked on it when main() is left and when the process has exited.
C1_ShutdownOnEveryExit ==
  (pc \in {"leave", "exited"} /\ obj # "unborn") => close_invoked

\* C1 witness: the process has exited after initDAQ raised on a device whose
\* handle had been created, and close_DAQ was invoked
C1_Witness ==
  /\ pc = "exited"
  /\ inventory = 1
  /\ ~caps.ao_pacer
  /\ hw.handle # "none"
  /\ close_invoked

\* initDAQ raises for this inventory and this device
InitFails == initDAQ(inventory, caps).err # NoError

\* C2: after initDAQ has failed at any of its failure points, a subsequent
\* close_DAQ in which no hardware call fails completes without raising.
C2_CloseAfterFailedInit ==
  (InitFails /\ CloseEnded /\ last.raised # ULException) => last.raised = NoError

\* C3: a call of close_DAQ after a close_DAQ that completed, in which no
\* hardware call fails, does not raise and issues no scan_stop, disconnect
\* or release; the hardware service receives release at most once.
C3_CloseIdempotent ==
  /\ (CloseEnded /\ last.closed_before /\ last.raised # ULException) =>
        /\ last.raised = NoError
        /\ Calls \cap {"ai.scan_stop", "ao.scan_stop", "disconnect", "release"} = {}
  /\ hw.releases <= 1

\* C4: the first close_DAQ on an initialized controller never raises, and
\* the release of its device handle is attempted whatever teardown step
\* failed before it.
C4_CloseNeverRaises ==
  (CloseEnded /\ ~InitFails /\ ~last.closed_before) =>
     /\ last.raised = NoError
     /\ "release" \in Calls

\* C5: start_input_thread (start_output_thread) while that direction's scan
\* is Running is rejected without side effects: no buffer is created, no
\* scan request is issued, and the object, the hardware service and the
\* buffers are as before.
C5_StartWhileRunningRejected ==
  [][/\ (hw.in.status = "RUNNING" /\ ApiStartInput) =>
          (last'.calls = <<>> /\ self' = self /\ hw' = hw /\ mem' = mem)
     /\ (hw.out.status = "RUNNING" /\ ApiStartOutput) =>
          (last'.calls = <<>> /\ self' = self /\ hw' = hw /\ mem' = mem)]_vars

\* C6: a poll to which the hardware service answers an error condition
\* surfaces it as a fault: the poll raises.
C6_PollSurfacesFault ==
  (/\ last.name \in {"check_input_thread", "check_output_thread"}
   /\ last.answer = "ERROR") => last.raised # NoError

\* C7: no controller operation writes to the buffer the hardware service is
\* replaying: when start_output_thread has written a buffer and its scan
\* request was not accepted, a Running output scan is not on that buffer.
C7_NoWriteWhileReplayed ==
  (/\ last.name = "start_output_thread"
   /\ last.wrote # None
   /\ last.raised # NoError
   /\ hw.out.status = "RUNNING") => hw.out.buf # last.wrote

\* C8: the input data an operation has read is a copy of the input buffer as
\* of the read, samples_per_channel long: what it then prints is what the
\* buffer held at the read.
C8_ReadIsSnapshot ==
  (last.name = "print_input_data_and_average" /\ last.printed # <<>>) =>
     /\ last.printed[1] = last.read_at_call
     /\ Len(last.printed[1]) = self.analog_input_map.samples_per_channel

\* C9: initDAQ obtains exactly one device.  With an empty inventory it fails
\* with the no-device error, with more than one device with the
\* more-than-one error, which is another error; in both cases no device
\* handle is created and no connection is attempted.  No other inventory
\* raises either error.
C9_ExactlyOneDevice ==
  LET none == RuntimeError("Error: No DAQ devices found")
      many == RuntimeError("Error: More than one DAQ device found.")
  IN /\ none # many
     /\ (obj # "unborn" /\ inventory # 1) =>
           /\ hw.handle = "none"
           /\ ~hw.connected
           /\ ~self.daq_device
     /\ last.name = "DAQ" =>
           /\ inventory = 0 <=> last.raised = none
           /\ inventory > 1 <=> last.raised = many
           /\ inventory # 1 => Calls = {"get_daq_device_inventory"}

\* C9 witness: initDAQ has raised the more-than-one error
C9_Witness ==
  /\ last.name = "DAQ"
  /\ inventory > 1
  /\ last.raised.type = "RuntimeError"
  /\ obj = "failed"

\* the samples of w, and its peaks and troughs as a cycle
Samples(w) == {w[k] : k \in DOMAIN w}
Prev(w, k) == w[IF k = 1 THEN Len(w) ELSE k - 1]
Succ(w, k) == w[IF k = Len(w) THEN 1 ELSE k + 1]
Peaks(w) == {k \in DOMAIN w : w[k] > Prev(w, k) /\ w[k] > Succ(w, k)}
Troughs(w) == {k \in DOMAIN w : w[k] < Prev(w, k) /\ w[k] < Succ(w, k)}

\* C10: for amplitude A > 0, any offset and a length divisible by 4, the
\* triangle waveform over one buffer has one rising and one falling segment
\* (one peak, one trough), maximum A + offset and minimum -A + offset.
C10_TriangleShape ==
  (/\ last.name = "generate_waveform"
   /\ wave_args.shape = "triangle"
   /\ wave_args.amplitude > 0) =>
     /\ Cardinality(Peaks(output_wave)) = 1
     /\ Cardinality(Troughs(output_wave)) = 1
     /\ \A v \in Samples(output_wave) :
          /\ v <= (wave_args.amplitude + wave_args.offset) * Fix
          /\ v >= (wave_args.offset - wave_args.amplitude) * Fix
     /\ (wave_args.amplitude + wave_args.offset) * Fix \in Samples(output_wave)
     /\ (wave_args.offset - wave_args.amplitude) * Fix \in Samples(output_wave)

\* C11: when close_DAQ completes (returns normally) on a successfully
\* initialized controller, whatever the states of the two scans were, neither
\* scan is Running, the device is not connected and its handle is released.
C11_CloseReleasesAll ==
  (CloseEnded /\ ~InitFails /\ last.raised = NoError) =>
     /\ hw.in.status # "RUNNING"
     /\ hw.out.status # "RUNNING"
     /\ ~hw.connected
     /\ hw.handle = "released"

\* C11 witness: a close_DAQ that stopped both scans, disconnected and released
\* has completed
C11_Witness ==
  /\ CloseEnded
  /\ last.raised = NoError
  /\ {"ai.scan_stop", "ao.scan_stop", "disconnect", "release"} \subseteq Calls
  /\ hw.handle = "released"

\* C12: starting a scan whose samples_per_channel is not positive fails
\* before a buffer is created, before a scan request reaches the hardware
\* service and before the controller's buffer field is set.
C12_InvalidConfigRejected ==
  /\ (/\ last.name = "start_input_thread"
      /\ self.analog_input_map.samples_per_channel <= 0) =>
        (last.raised # NoError /\ last.calls = <<>> /\ self.buffer_in = None)
  /\ (/\ last.name = "start_output_thread"
      /\ self.analog_output_map.samples_per_channel <= 0) =>
        (last.raised # NoError /\ last.calls = <<>> /\ self.buffer_out = None)

\* C13: for the one device found, with both subdevices present: when the
\* input or the output pacer is missing initDAQ raises that direction's
\* no-pacer error and never issues connect; when connect was issued and
\* is_connected then answers false it raises the not-connected error, which
\* is another error; and DAQ() returns normally only when both pacers exist
\* and the device is connected.
C13_PacerAndConnection ==
  LET no_ai_pacer == RuntimeError("Error: The specified DAQ device does not support hardware paced analog input")
      no_ao_pacer == RuntimeError("Error: The DAQ device does not support paced analog output")
      not_connected == RuntimeError("Error: The DAQ device is not connected")
  IN /\ not_connected \notin {no_ai_pacer, no_ao_pacer}
     /\ (last.name = "DAQ" /\ inventory = 1) =>
           /\ (~caps.ai_pacer \/ ~caps.ao_pacer) =>
                 /\ last.raised.type = "RuntimeError"
                 /\ last.raised # not_connected
                 /\ "connect" \notin Calls
                 /\ ~hw.connected
           /\ (caps.ai /\ caps.ao /\ ~caps.ai_pacer) => last.raised = no_ai_pacer
           /\ (caps.ai /\ caps.ao /\ caps.ai_pacer /\ ~caps.ao_pacer) =>
                 last.raised = no_ao_pacer
           /\ ("is_connected" \in Calls /\ ~hw.connected) =>
                 ("connect" \in Calls /\ last.raised = not_connected)
           /\ last.raised = not_connected => "connect" \in Calls
     /\ (last.name = "DAQ" /\ last.raised = NoError) =>
           (caps.ai_pacer /\ caps.ao_pacer /\ hw.connected /\ obj = "live")

\* C13 witness: initDAQ has raised the no-pacer error of the output direction
\* on a device that has both subdevices and the input pacer
C13_Witness ==
  /\ last.name = "DAQ"
  /\ inventory = 1
  /\ caps.ai /\ caps.ao /\ caps.ai_pacer /\ ~caps.ao_pacer
  /\ last.raised.type = "RuntimeError"
  /\ obj = "failed"

\* C14: the process exits with 0 only on a clean shutdown: when DAQ() or a
\* later call of the try block has failed (an except clause of main handled
\* its exception), the exit code is not 0.
C14_ExitCode ==
  (pc = "exited" /\ handled # NoError) => exit_code # 0

\* the preconditions of a filter design: 0 < cutoff < fs / 2 (for a band
\* 0 < lowcut < highcut < fs / 2) and order >= 1
ValidFilterParameters(c) ==
  /\ 0 < c.lowcut
  /\ c.family = "band" => c.lowcut < c.highcut
  /\ 2 * c.highcut < c.fs
  /\ c.order >= 1

\* C15: a filter design whose parameters violate the preconditions is
\* rejected: it raises and returns no coefficients.
C15_FilterParametersRejected ==
  (filter_call.family # "none" /\ ~ValidFilterParameters(filter_call)) =>
     /\ filter_call.err # NoError
     /\ filter_call.b = 0
     /\ filter_call.a = 0

\* C16: generate_waveform with a shape other than sine and triangle raises
\* the unsupported-waveform error, hands no samples to the caller (the
\* caller's waveform stays what it was) and leaves the object, the hardware
\* service and the buffers as they were; with sine or triangle it raises
\* nothing.
C16_UnsupportedWaveform ==
  [][ApiGenerate =>
       IF wave_args'.shape \in {"sine", "triangle"}
       THEN last'.raised = NoError
       ELSE /\ last'.raised = ValueError("Unsupported waveform type")
            /\ output_wave' = output_wave
            /\ self' = self /\ hw' = hw /\ mem' = mem /\ obj' = obj]_vars

\* C16 witness: generate_waveform("quadrature") has raised in a caller that
\* holds a waveform generated before
C16_Witness ==
  /\ last.name = "generate_waveform"
  /\ wave_args.shape = "quadrature"
  /\ last.raised.type = "ValueError"
  /\ output_wave # <<>>

\* C17: close_DAQ issues scan_stop for a direction only while the hardware
\* scan of that direction is Running, whatever the hardware service did
\* since the status was queried; and a poll answers Running only for a scan
\* the hardware service accepted and is running.
C17_StopOnlyWhileRunning ==
  [][/\ (ApiCloseStep /\ \E i \in DOMAIN last'.calls : last'.calls[i] = "ai.scan_stop") =>
          hw.in.status = "RUNNING"
     /\ (ApiCloseStep /\ \E i \in DOMAIN last'.calls : last'.calls[i] = "ao.scan_stop") =>
          hw.out.status = "RUNNING"
     /\ (ApiCheckInput /\ last'.ret) => (hw.in.status = "RUNNING" /\ hw.in.buf # None)
     /\ (ApiCheckOutput /\ last'.ret) => (hw.out.status = "RUNNING" /\ hw.out.buf # None)]_vars

\* C18: while the controller exists and a direction's hardware scan is
\* Running, the buffer the hardware service writes (input) or replays
\* (output) is the buffer the controller holds in buffer_in / buffer_out.
C18_HardwareBufferIsHeld ==
  obj = "live" =>
    /\ hw.in.status = "RUNNING" => hw.in.buf = self.buffer_in
    /\ hw.out.status = "RUNNING" => hw.out.buf = self.buffer_out

\* C19: main() sleeps between two consecutive rounds of polling: a round
\* (line 25) is entered from the start of the loop or from the sleep of
\* line 30, never straight from the end of the round before.
C19_SleepBetweenPolls ==
  [][(pc' = "check_output" /\ pc # "check_output") => pc \in {"start_input", "sleep"}]_vars

\* C20: once close_DAQ has released the device handle, a later call of a
\* start method, a poll or close_DAQ issues no call to the hardware service.
C20_NoUseAfterRelease ==
  /\ (/\ hw.handle = "released"
      /\ last.name \in {"start_input_thread", "start_output_thread",
                         "check_input_thread", "check_output_thread"}) =>
        Calls \subseteq {"create_float_buffer"}
  /\ (last.name = "close_DAQ" /\ last.closed_before) => Calls = {}

====
